---------------------------- MODULE Spec2Model ----------------------------
(***************************************************************************)
(* A model of the numeric building blocks of torecsys:                     *)
(*   - data/subsampling/subsampler.py       subsampling                    *)
(*   - utils/operations.py                  combination                    *)
(*   - models/ctr/deep_ffm.py               DeepFFM's dense input size     *)
(*   - inputs/base/multi_indices_field_aware_emb.py                        *)
(*   - inputs/base/value_inp.py, models/inputs/__init__.py                 *)
(*   - layers/ctr/mixture_of_experts.py     MixtureOfExpertsLayer.forward  *)
(*                                                                         *)
(* Every function is one action: Init draws the arguments (and, for the    *)
(* modules, the freshly constructed object), the action applies the code   *)
(* to them and stores what the caller observes in ret.                     *)
(***************************************************************************)
EXTENDS Integers, Sequences, FiniteSets

VARIABLES
    pc,     \* "ready" before the call, "done" after it
    call,   \* the operation called and its arguments
    self,   \* the attributes of the module object the call is made on
    ret     \* what the call returned or raised

vars == <<pc, call, self, ret>>

NoObject == [class |-> "none"]
NoRet == [exc |-> "unset"]

(***************************************************************************)
(* Rational numbers <<numerator, denominator>>, denominator > 0.           *)
(***************************************************************************)
RatSub(x, y) == <<x[1] * y[2] - y[1] * x[2], x[2] * y[2]>>
RatDiv(x, y) == <<x[1] * y[2], x[2] * y[1]>>
RatSq(x) == <<x[1] * x[1], x[2] * x[2]>>
RatLt(x, y) == x[1] * y[2] < y[1] * x[2]
RatOne == <<1, 1>>

(***************************************************************************)
(* subsampling                                                             *)
(***************************************************************************)
MaxRows == 3
RandDen == 4
ThrDen == 4
Tokens == {1, 2}
Formulas == {"code", "paper", "sgns"}
DataKinds == {"ndarray", "DataFrame", "list"}

\* A drop value is kept exact as the pair [a, s] that stands for a - sqrt(s),
\* a and s rationals, s >= 0.
\* rand > a - sqrt(s), decided exactly: sqrt(s) > a - rand holds when a - rand
\* is negative, and otherwise exactly when s > (a - rand)^2.
RandGreaterThanProb(rand, p) ==
    LET d == RatSub(p.a, rand)
    IN  d[1] < 0 \/ RatLt(RatSq(d), p.s)

\* np.unique(columns, return_counts=True): the sorted distinct tokens and how
\* often each occurs.
RECURSIVE SortedSeq(_)
SortedSeq(S) ==
    IF S = {} THEN <<>>
    ELSE LET m == CHOOSE x \in S : \A y \in S : x <= y
         IN  <<m>> \o SortedSeq(S \ {m})
np_unique(columns) ==
    LET uniques == SortedSeq({columns[i] : i \in DOMAIN columns})
    IN  [uniques |-> uniques,
         counts |-> [k \in DOMAIN uniques |->
                        Cardinality({i \in DOMAIN columns : columns[i] = uniques[k]})]]

RECURSIVE np_sum(_)
np_sum(counts) ==
    IF counts = <<>> THEN 0 ELSE Head(counts) + np_sum(Tail(counts))

\* freq = counts / np.sum(counts)
frequencies_unnormalised(counts) == [k \in DOMAIN counts |-> <<counts[k], 1>>]
frequencies(counts) == [k \in DOMAIN counts |-> <<counts[k], np_sum(counts)>>]

\* The formula selected by lines 43-46, applied to one frequency.
paper_formula_func_inverted(f, t) == [a |-> RatOne, s |-> RatDiv(f, t)]
paper_formula_func(f, t) == [a |-> RatOne, s |-> RatDiv(t, f)]
code_formula_func(f, t) == [a |-> RatDiv(RatSub(f, t), f), s |-> RatDiv(t, f)]
formula_func(formula, f, t) ==
    IF formula = "code" THEN code_formula_func(f, t) ELSE paper_formula_func(f, t)

\* The loop of lines 88-91: the rows appended to sampled_data, in row order.
RECURSIVE sampled_rows_less(_, _, _, _)
sampled_rows_less(i, columns, rand_prob, prob) ==
    IF i > Len(columns) THEN <<>>
    ELSE (IF ~ RandGreaterThanProb(rand_prob[i], prob[columns[i]]) THEN <<i>> ELSE <<>>)
         \o sampled_rows_less(i + 1, columns, rand_prob, prob)
RECURSIVE sampled_rows(_, _, _, _)
sampled_rows(i, columns, rand_prob, prob) ==
    IF i > Len(columns) THEN <<>>
    ELSE (IF RandGreaterThanProb(rand_prob[i], prob[columns[i]]) THEN <<i>> ELSE <<>>)
         \o sampled_rows(i + 1, columns, rand_prob, prob)

Raised(exc, line) ==
    [exc |-> exc, line |-> line, prob |-> <<>>, rand_prob |-> <<>>,
     sampled |-> <<>>, returned |-> FALSE]

\* Lines 69-93: the body reached once the formula and the selectors are chosen.
\* cat_func is np.vstack for an array, which raises ValueError on an empty
\* list, and the DataFrame constructor otherwise.
subsample(data, formula, threshold, draws) ==
    LET columns == data.col
        u == np_unique(columns)
        freq == frequencies(u.counts)
        probs == [k \in DOMAIN freq |-> formula_func(formula, freq[k], threshold)]
        prob == [tok \in {u.uniques[k] : k \in DOMAIN u.uniques} |->
                    probs[CHOOSE k \in DOMAIN u.uniques : u.uniques[k] = tok]]
        rand_prob == [i \in 1..Len(columns) |-> draws[i]]
        sampled == sampled_rows(1, columns, rand_prob, prob)
        empty_vstack == data.kind = "ndarray" /\ sampled = <<>>
    IN  [exc |-> IF empty_vstack THEN "ValueError" ELSE "None", line |-> 93,
         prob |-> prob, rand_prob |-> rand_prob, sampled |-> sampled,
         returned |-> ~ empty_vstack]

\* subsampling(data, key, formula, threshold), given the values that
\* np.random.random would draw.
subsampling_type_first(data, formula, threshold, draws) ==
    IF data.kind \notin {"ndarray", "DataFrame"} THEN Raised("TypeError", 67)
    ELSE IF formula \notin {"code", "paper"} THEN Raised("ValueError", 48)
    ELSE subsample(data, formula, threshold, draws)
subsampling_duck_typed(data, formula, threshold, draws) ==
    IF formula \notin {"code", "paper"} THEN Raised("ValueError", 48)
    ELSE subsample(data, formula, threshold, draws)
subsampling(data, formula, threshold, draws) ==
    IF formula \notin {"code", "paper"} THEN Raised("ValueError", 48)
    ELSE IF data.kind \notin {"ndarray", "DataFrame"} THEN Raised("TypeError", 67)
    ELSE subsample(data, formula, threshold, draws)

SubsamplingData ==
    UNION {[kind : DataKinds, col : [1..n -> Tokens]] : n \in 0..MaxRows}

SubsamplingCalls ==
    [op : {"subsampling"}, data : SubsamplingData, formula : Formulas,
     threshold : {<<tn, ThrDen>> : tn \in 0..ThrDen}]

InitSub ==
    /\ pc = "ready"
    /\ call \in SubsamplingCalls
    /\ self = NoObject
    /\ ret = NoRet

Subsampling ==
    /\ pc = "ready"
    /\ call.op = "subsampling"
    /\ \E draws \in [1..Len(call.data.col) -> {<<rn, RandDen>> : rn \in 0..(RandDen - 1)}] :
          ret' = subsampling(call.data, call.formula, call.threshold, draws)
    /\ pc' = "done"
    /\ UNCHANGED <<call, self>>

NextSub == Subsampling

SpecSub == InitSub /\ [][NextSub]_vars


(***************************************************************************)
(* combination                                                             *)
(*                                                                         *)
(* Python's int is unbounded and numer / denom is a double: the quotient   *)
(* rounded to 53 significant bits, ties to even.  An int is kept here as   *)
(* its little-endian sequence of limbs in base 2^15 (<<>> is 0), so that   *)
(* the products and the rounding are those of the code at every size.      *)
(***************************************************************************)
MaxN == 57
MantissaBits == 53
Base == 2 ^ 15

RECURSIVE BitLenInt(_)
BitLenInt(v) == IF v = 0 THEN 0 ELSE 1 + BitLenInt(v \div 2)
LimbBits == BitLenInt(Base) - 1

RECURSIVE BigStrip(_)
BigStrip(a) ==
    IF a # <<>> /\ a[Len(a)] = 0 THEN BigStrip(SubSeq(a, 1, Len(a) - 1)) ELSE a

\* a * k + carry, for 0 <= k, carry < Base
RECURSIVE BigMulSmallC(_, _, _)
BigMulSmallC(a, k, carry) ==
    IF a = <<>> THEN (IF carry = 0 THEN <<>> ELSE <<carry>>)
    ELSE LET v == Head(a) * k + carry
         IN  <<v % Base>> \o BigMulSmallC(Tail(a), k, v \div Base)
BigMulSmall(a, k) == BigStrip(BigMulSmallC(a, k, 0))

\* floor(a / k), for 0 < k <= Base; limb i of the quotient, from the top limb down
RECURSIVE BigDivSmallAt(_, _, _, _)
BigDivSmallAt(a, k, i, rem) ==
    IF i = 0 THEN <<>>
    ELSE LET v == rem * Base + a[i]
         IN  BigDivSmallAt(a, k, i - 1, v % k) \o <<v \div k>>
BigDivSmall(a, k) == BigStrip(BigDivSmallAt(a, k, Len(a), 0))

RECURSIVE BigCmpAt(_, _, _)
BigCmpAt(a, b, i) ==
    IF i = 0 THEN 0
    ELSE IF a[i] # b[i] THEN (IF a[i] < b[i] THEN -1 ELSE 1)
    ELSE BigCmpAt(a, b, i - 1)
\* -1, 0 or 1 as a < b, a = b or a > b
BigCmp(a, b) ==
    IF Len(a) # Len(b) THEN (IF Len(a) < Len(b) THEN -1 ELSE 1)
    ELSE BigCmpAt(a, b, Len(a))

\* a - b, for a >= b
RECURSIVE BigSubB(_, _, _)
BigSubB(a, b, borrow) ==
    IF a = <<>> THEN <<>>
    ELSE LET v == Head(a) - (IF b = <<>> THEN 0 ELSE Head(b)) - borrow
         IN  <<v % Base>>
               \o BigSubB(Tail(a), IF b = <<>> THEN <<>> ELSE Tail(b), IF v < 0 THEN 1 ELSE 0)
BigSub(a, b) == BigStrip(BigSubB(a, b, 0))

BitLen(a) == IF a = <<>> THEN 0 ELSE LimbBits * (Len(a) - 1) + BitLenInt(a[Len(a)])
\* a * 2^k and floor(a / 2^k)
BigShl(a, k) ==
    IF a = <<>> THEN <<>>
    ELSE [i \in 1..(k \div LimbBits) |-> 0] \o BigMulSmall(a, 2 ^ (k % LimbBits))
BigShr(a, k) ==
    IF k \div LimbBits >= Len(a) THEN <<>>
    ELSE BigDivSmall(SubSeq(a, k \div LimbBits + 1, Len(a)), 2 ^ (k % LimbBits))

\* Binary long division: the quotient bits i, i - 1, ..., 0 of rem / d, from
\* st = [rem, t, q] with t = d * 2^i, rem < 2 * t and q the bits found so far.
RECURSIVE DivSteps(_, _)
DivSteps(st, i) ==
    IF i < 0 THEN st
    ELSE IF BigCmp(st.rem, st.t) >= 0
    THEN DivSteps([rem |-> BigSub(st.rem, st.t), t |-> BigShr(st.t, 1),
                   q |-> BigMulSmallC(st.q, 2, 1)], i - 1)
    ELSE DivSteps([rem |-> st.rem, t |-> BigShr(st.t, 1),
                   q |-> BigMulSmallC(st.q, 2, 0)], i - 1)

\* int(numer / denom) for numer >= denom > 0: with L the bit length of the
\* quotient's integer part, the double is m * 2^(L - 53), m the quotient
\* scaled to 53 bits and rounded to nearest, ties to even; int() truncates.
int_true_div(numer, denom) ==
    LET l0 == BitLen(numer) - BitLen(denom)
        l == IF BigCmp(numer, BigShl(denom, l0)) >= 0 THEN l0 + 1 ELSE l0
        up == MantissaBits - l
        n2 == IF up > 0 THEN BigShl(numer, up) ELSE numer
        d2 == IF up < 0 THEN BigShl(denom, 0 - up) ELSE denom
        qr == DivSteps([rem |-> n2, t |-> BigShl(d2, MantissaBits - 1), q |-> <<>>],
                       MantissaBits - 1)
        half == BigCmp(BigMulSmall(qr.rem, 2), d2)
        odd == qr.q # <<>> /\ qr.q[1] % 2 = 1
        m == IF half > 0 \/ (half = 0 /\ odd) THEN BigMulSmallC(qr.q, 1, 1) ELSE qr.q
    IN  IF up > 0 THEN BigShr(m, up) ELSE BigShl(m, 0 - up)

\* range(start, stop) with step 1 or -1
RECURSIVE py_range(_, _, _)
py_range(start, stop, step) ==
    IF (step > 0 /\ start >= stop) \/ (step < 0 /\ start <= stop) THEN <<>>
    ELSE <<start>> \o py_range(start + step, stop, step)

\* reduce(op.mul, factors, acc)
RECURSIVE reduce_mul(_, _)
reduce_mul(factors, acc) ==
    IF factors = <<>> \/ acc = <<>> THEN acc
    ELSE reduce_mul(Tail(factors), BigMulSmall(acc, Head(factors)))

py_min(a, b) == IF b < a THEN b ELSE a

combination(n, r) ==
    LET r1 == py_min(r, n - r)
        numer == reduce_mul(py_range(n, n - r1, -1), <<1>>)
        denom == reduce_mul(py_range(1, r1 + 1, 1), <<1>>)
    IN  int_true_div(numer, denom)

(***************************************************************************)
(* DeepFieldAwareFactorizationMachineModel.__init__: the sizes it gives    *)
(* its two layers.                                                         *)
(***************************************************************************)
MaxNumFields == 8
MaxEmbedSize == 8

DeepFFM_init(embed_size, num_fields) ==
    LET inputs_size == BigMulSmall(combination(num_fields, 2), embed_size)
    IN  [class |-> "DeepFieldAwareFactorizationMachineModel",
         ffm |-> [num_fields |-> num_fields],
         deep |-> [inputs_size |-> inputs_size]]

CombinationCalls == [op : {"combination"}, n : 0..MaxN, r : 0..MaxN]
DeepFFMCalls ==
    [op : {"DeepFFM.__init__"}, embed_size : 1..MaxEmbedSize, num_fields : 1..MaxNumFields]

InitComb ==
    /\ pc = "ready"
    /\ call \in CombinationCalls \cup DeepFFMCalls
    /\ self = NoObject
    /\ ret = NoRet

Combination ==
    /\ pc = "ready"
    /\ call.op = "combination"
    /\ ret' = [exc |-> "None", value |-> combination(call.n, call.r)]
    /\ pc' = "done"
    /\ UNCHANGED <<call, self>>

DeepFFMInit ==
    /\ pc = "ready"
    /\ call.op = "DeepFFM.__init__"
    /\ self' = DeepFFM_init(call.embed_size, call.num_fields)
    /\ ret' = [exc |-> "None"]
    /\ pc' = "done"
    /\ UNCHANGED call

NextComb == Combination \/ DeepFFMInit

SpecComb == InitComb /\ [][NextComb]_vars


(***************************************************************************)
(* MultiIndicesFieldAwareEmbedding and ValueInputs                         *)
(*                                                                         *)
(* A tensor is a sequence over its first axis of sequences over the next.  *)
(* The weights of an embedding table are whatever training made them: row  *)
(* k of table i is the vector of the E distinct symbols <<i, k, e>>.       *)
(* Tables, fields and rows are numbered from 0 as in the code; a sequence  *)
(* holds entry number p at p + 1.                                          *)
(***************************************************************************)
MaxFields == 2
MaxFieldSize == 2
MaxEmbed == 2
MaxBatch == 2
Values == {0, 1}

RECURSIVE np_cumsum_from(_, _)
np_cumsum_from(xs, acc) ==
    IF xs = <<>> THEN <<>>
    ELSE <<acc + Head(xs)>> \o np_cumsum_from(Tail(xs), acc + Head(xs))
np_cumsum(xs) == np_cumsum_from(xs, 0)

\* (0, *np.cumsum(field_sizes)[:-1])
offsets(field_sizes) ==
    <<0>> \o SubSeq(np_cumsum(field_sizes), 1, Len(field_sizes) - 1)

MultiIndicesFieldAwareEmbedding_init(embed_size, field_sizes) ==
    [class |-> "MultiIndicesFieldAwareEmbedding",
     num_fields |-> Len(field_sizes),
     embeddings |-> [i \in 1..Len(field_sizes) |->
                        [num_embeddings |-> np_sum(field_sizes),
                         embedding_dim |-> embed_size]],
     offsets |-> offsets(field_sizes),
     length |-> embed_size]

\* self.embeddings[i](inputs): the rows of table i at the indices, (B, N, E)
nn_Embedding(embedding, i, indices) ==
    [b \in DOMAIN indices |->
        [j \in DOMAIN indices[b] |->
            [e \in 1..embedding.embedding_dim |-> <<i, indices[b][j], e>>]]]

\* the same entries interleaved on the field axis, as stacking on a new last
\* axis and flattening would order them
torch_stack_flatten(tensors) ==
    LET n == Len(tensors[1][1])
    IN  [b \in DOMAIN tensors[1] |->
            [p \in 1..(Len(tensors) * n) |->
                tensors[((p - 1) % Len(tensors)) + 1][b][((p - 1) \div Len(tensors)) + 1]]]
\* torch.cat(tensors, dim=1) of tensors with the same first axis
RECURSIVE torch_cat_dim1(_)
torch_cat_dim1(tensors) ==
    IF Len(tensors) = 1 THEN Head(tensors)
    ELSE LET rest == torch_cat_dim1(Tail(tensors))
         IN  [b \in DOMAIN Head(tensors) |-> Head(tensors)[b] \o rest[b]]

tensor_shape3(t) == <<Len(t), Len(t[1]), Len(t[1][1])>>

MultiIndicesFieldAwareEmbedding_forward(obj, inputs) ==
    LET reindexed == [b \in DOMAIN inputs |->
                        [j \in DOMAIN inputs[b] |-> inputs[b][j] + obj.offsets[j]]]
        outputs == torch_cat_dim1(
                      [i \in 1..obj.num_fields |->
                          nn_Embedding(obj.embeddings[i], i - 1, reindexed)])
    IN  [exc |-> "None", outputs |-> outputs, shape |-> tensor_shape3(outputs),
         names |-> <<"B", "N", "E">>]

ValueInputs_init(num_fields) ==
    [class |-> "ValueInputs", num_fields |-> num_fields, length |-> 1]

\* inputs.unsqueeze(dim=-1) of a (B, N) tensor, named (B, N, E)
ValueInputs_forward(obj, inputs) ==
    LET outputs == [b \in DOMAIN inputs |-> [j \in DOMAIN inputs[b] |-> <<inputs[b][j]>>]]
    IN  [exc |-> "None", outputs |-> outputs, shape |-> tensor_shape3(outputs),
         names |-> <<"B", "N", "E">>]

\* _Inputs.__len__
Inputs_len(obj) == [exc |-> "None", value |-> obj.length]

FieldSizes == UNION {[1..n -> 1..MaxFieldSize] : n \in 1..MaxFields}
\* (B, N) index tensors whose column j holds indices of field j
IndexInputs(field_sizes) ==
    UNION {[1..B -> {row \in [1..Len(field_sizes) -> 0..(MaxFieldSize - 1)] :
                        \A j \in 1..Len(field_sizes) : row[j] < field_sizes[j]}]
           : B \in 1..MaxBatch}
ValueTensors(num_fields) ==
    UNION {[1..B -> [1..num_fields -> Values]] : B \in 1..MaxBatch}

InitInputs ==
    /\ pc = "ready"
    /\ ret = NoRet
    /\ \/ \E embed_size \in 1..MaxEmbed, field_sizes \in FieldSizes :
            /\ self = MultiIndicesFieldAwareEmbedding_init(embed_size, field_sizes)
            /\ call \in [op : {"forward"}, field_sizes : {field_sizes},
                         inputs : IndexInputs(field_sizes)]
                        \cup [op : {"__len__"}, field_sizes : {field_sizes}]
       \/ \E num_fields \in 1..MaxFields :
            /\ self = ValueInputs_init(num_fields)
            /\ call \in [op : {"forward"}, inputs : ValueTensors(num_fields)]
                        \cup [op : {"__len__"}]

EmbeddingForward ==
    /\ pc = "ready"
    /\ self.class = "MultiIndicesFieldAwareEmbedding"
    /\ call.op = "forward"
    /\ ret' = MultiIndicesFieldAwareEmbedding_forward(self, call.inputs)
    /\ pc' = "done"
    /\ UNCHANGED <<call, self>>

ValueForward ==
    /\ pc = "ready"
    /\ self.class = "ValueInputs"
    /\ call.op = "forward"
    /\ ret' = ValueInputs_forward(self, call.inputs)
    /\ pc' = "done"
    /\ UNCHANGED <<call, self>>

InputsLen ==
    /\ pc = "ready"
    /\ self.class \in {"MultiIndicesFieldAwareEmbedding", "ValueInputs"}
    /\ call.op = "__len__"
    /\ ret' = Inputs_len(self)
    /\ pc' = "done"
    /\ UNCHANGED <<call, self>>

NextInputs == EmbeddingForward \/ ValueForward \/ InputsLen

SpecInputs == InitInputs /\ [][NextInputs]_vars

(***************************************************************************)
(* MixtureOfExpertsLayer                                                   *)
(*                                                                         *)
(* What an expert or a gate computes depends on trained weights: entry o   *)
(* of expert e's output for sample b is the symbol <<"expert", e, b, o>>,  *)
(* entry k of gate g's softmax is <<"gate", g, b, k>>, and a product is    *)
(* the pair of its factors.  Experts, gates, samples and entries are       *)
(* numbered from 0.                                                        *)
(***************************************************************************)
MaxExperts == 3
MaxExpertOut == 2
MaxGates == 2

MixtureOfExpertsLayer_init(inputs_size, output_size, num_experts, expert_output_size, num_gates) ==
    [class |-> "MixtureOfExpertsLayer",
     experts |-> [i \in 1..num_experts |->
                     [name |-> <<"Expert", i - 1>>, output_size |-> expert_output_size]],
     gates |-> [i \in 1..num_gates |->
                   [name |-> <<"Gate", i - 1>>, in_features |-> inputs_size,
                    out_features |-> output_size]]]

times(x, w) == [x |-> x, w |-> w]

\* expert_module(emb_inputs), (B, O_i)
expert_forward(expert, B) ==
    [b \in 1..B |-> [o \in 1..expert.output_size |->
                        <<"expert", expert.name[2], b - 1, o - 1>>]]
\* gate_module(emb_inputs), (B, out_features)
gate_forward(gate, B) ==
    [b \in 1..B |-> [k \in 1..gate.out_features |-> <<"gate", gate.name[2], b - 1, k - 1>>]]

\* the same entries with the experts interleaved
torch_stack_O(tensors) ==
    LET n == Len(tensors[1][1])
    IN  [b \in DOMAIN tensors[1] |->
            [p \in 1..(Len(tensors) * n) |->
                tensors[((p - 1) % Len(tensors)) + 1][b][((p - 1) \div Len(tensors)) + 1]]]
\* torch.cat(experts_output, dim="O"), of (B, O_i) tensors
RECURSIVE torch_cat_O(_)
torch_cat_O(tensors) ==
    IF Len(tensors) = 1 THEN Head(tensors)
    ELSE LET rest == torch_cat_O(Tail(tensors))
         IN  [b \in DOMAIN Head(tensors) |-> Head(tensors)[b] \o rest[b]]

\* torch.cat(gated_weights, dim="N"), of (B, 1, O) tensors: (B, num_gates, O)
torch_cat_N(tensors) ==
    [b \in DOMAIN tensors[1] |-> [g \in 1..Len(tensors) |-> tensors[g][b][1]]]

\* torch.einsum("ik,ijk->ijk", [x, w]); the sizes of k must agree
torch_einsum(x, w) ==
    [b \in DOMAIN x |-> [g \in DOMAIN w[b] |->
        [k \in DOMAIN x[b] |-> times(x[b][k], w[b][g][k])]]]

MixtureOfExpertsLayer_forward(obj, shape) ==
    LET B == shape[1]
        flat == shape[2] * shape[3]
        experts_output == torch_cat_O([e \in DOMAIN obj.experts |->
                                          expert_forward(obj.experts[e], B)])
        gated_weights == torch_cat_N([g \in DOMAIN obj.gates |->
                            [b \in 1..B |-> <<gate_forward(obj.gates[g], B)[b]>>]])
    IN  IF \E g \in DOMAIN obj.gates : obj.gates[g].in_features # flat
        THEN [exc |-> "RuntimeError", line |-> 134]
        ELSE IF Len(experts_output[1]) # Len(gated_weights[1][1])
        THEN [exc |-> "RuntimeError", line |-> 149]
        ELSE LET gated_experts == torch_einsum(experts_output, gated_weights)
             IN  [exc |-> "None", line |-> 152, outputs |-> gated_experts,
                  shape |-> tensor_shape3(gated_experts), names |-> <<"B", "N", "O">>]

MoEArgs ==
    [inputs_size : 1..(MaxFields * MaxEmbed), output_size : 1..(MaxExperts * MaxExpertOut),
     num_experts : 1..MaxExperts, expert_output_size : 1..MaxExpertOut,
     num_gates : 1..MaxGates]

InitMoE ==
    /\ pc = "ready"
    /\ ret = NoRet
    /\ \E a \in MoEArgs :
          /\ self = MixtureOfExpertsLayer_init(a.inputs_size, a.output_size, a.num_experts,
                                               a.expert_output_size, a.num_gates)
          /\ call \in [op : {"forward"}, args : {a},
                       shape : (1..MaxBatch) \X (1..MaxFields) \X (1..MaxEmbed)]

MoEForward ==
    /\ pc = "ready"
    /\ self.class = "MixtureOfExpertsLayer"
    /\ call.op = "forward"
    /\ ret' = MixtureOfExpertsLayer_forward(self, call.shape)
    /\ pc' = "done"
    /\ UNCHANGED <<call, self>>

NextMoE == MoEForward

SpecMoE == InitMoE /\ [][NextMoE]_vars

(***************************************************************************)
(* The library as a whole: one call of any of the functions above.         *)
(***************************************************************************)
Init == InitSub \/ InitComb \/ InitInputs \/ InitMoE

Next ==
    \/ Subsampling
    \/ Combination
    \/ DeepFFMInit
    \/ EmbeddingForward
    \/ ValueForward
    \/ InputsLen
    \/ MoEForward

Spec == Init /\ [][Next]_vars

(***************************************************************************)
(* Properties of subsampling.  They are stated over the arguments and the  *)
(* result alone: the relative frequency of a row's token is counted here   *)
(* directly, and the comparison of a draw with a drop value is written out *)
(* in integers.                                                            *)
(***************************************************************************)
SubDone == pc = "done" /\ call.op = "subsampling"
SubRows == 1..Len(call.data.col)
Supported ==
    call.formula \in {"code", "paper"} /\ call.data.kind \in {"ndarray", "DataFrame"}
Range(q) == {q[i] : i \in DOMAIN q}

\* Occurrences of row i's token in the key column; its relative frequency is
\* Count(i) / Len(col).
Count(i) == Cardinality({j \in SubRows : call.data.col[j] = call.data.col[i]})

\* P_random > P_drop for row i, with f = c / n, t = tn / td, P_random = rn / rd
\* and x = t / f = X / Y:
\*   paper: rn/rd > 1 - sqrt(x)      <=>  X * rd^2 > Y * (rd - rn)^2
\*   code:  rn/rd > 1 - x - sqrt(x)  <=>  R < 0 \/ X * Y * rd^2 > R^2,
\*          R = Y * rd - X * rd - rn * Y
DrawExceedsDrop(i) ==
    LET X == call.threshold[1] * Len(call.data.col)
        Y == call.threshold[2] * Count(i)
        rn == ret.rand_prob[i][1]
        rd == ret.rand_prob[i][2]
        R == Y * rd - X * rd - rn * Y
    IN  IF call.formula = "paper"
        THEN X * rd * rd > Y * (rd - rn) * (rd - rn)
        ELSE R < 0 \/ X * Y * rd * rd > R * R

\* C1: an unsupported formula raises ValueError at the formula check whatever
\* the data is (also when the data type is unsupported too), and then no draw
\* is made, no row is sampled and nothing is returned.
C1_UnsupportedFormulaRaisesValueError ==
    (SubDone /\ call.formula \notin {"code", "paper"})
        => /\ ret.exc = "ValueError"
           /\ ret.line = 48
           /\ ret.sampled = <<>>
           /\ ret.rand_prob = <<>>
           /\ ~ ret.returned
C1_Witness ==
    /\ SubDone
    /\ call.formula = "sgns"
    /\ call.data.kind = "list"
    /\ Len(call.data.col) = MaxRows
    /\ ret.exc = "ValueError"

\* C2: a supported formula with data that is neither an array nor a DataFrame
\* raises TypeError before a column is selected, a frequency counted or a
\* random value drawn.
C2_UnsupportedDataRaisesTypeError ==
    (SubDone /\ call.formula \in {"code", "paper"}
             /\ call.data.kind \notin {"ndarray", "DataFrame"})
        => /\ ret.exc = "TypeError"
           /\ ret.line = 67
           /\ ret.prob = <<>>
           /\ ret.rand_prob = <<>>
           /\ ret.sampled = <<>>
           /\ ~ ret.returned
C2_Witness ==
    /\ SubDone
    /\ call.formula = "code"
    /\ call.data.kind = "list"
    /\ Len(call.data.col) = MaxRows
    /\ ret.exc = "TypeError"

Factorial_times(x, k) == reduce_mul(py_range(1, k + 1, 1), x)
\* the limbs of a number below Base
Limbs(v) == IF v = 0 THEN <<>> ELSE <<v>>

\* C3: for 0 <= r <= n, combination(n, r) is n! / (r! * (n - r)!), that is
\* combination(n, r) * r! * (n - r)! = n!; it is symmetric in r and n - r, 1
\* at r = 0 and r = n, and n at r = 1.
C3_CombinationIsBinomial ==
    (pc = "done" /\ call.op = "combination" /\ call.r <= call.n)
        => /\ Factorial_times(Factorial_times(ret.value, call.r), call.n - call.r)
                = Factorial_times(<<1>>, call.n)
           /\ ret.value = combination(call.n, call.n - call.r)
           /\ (call.r = 0 \/ call.r = call.n) => ret.value = <<1>>
           /\ call.r = 1 => ret.value = Limbs(call.n)

\* C4: the dense network's input size is num_fields * (num_fields - 1) / 2 *
\* embed_size, which is 0 for a single field.
C4_DenseInputSizeIsPairsTimesEmbed ==
    (pc = "done" /\ call.op = "DeepFFM.__init__")
        => self.deep.inputs_size
             = Limbs(((call.num_fields * (call.num_fields - 1)) \div 2) * call.embed_size)

(***************************************************************************)
(* Properties of the inputs modules.                                       *)
(***************************************************************************)
\* the number of indices that belong to the fields before field j (0-based)
RECURSIVE SizesBefore(_, _)
SizesBefore(field_sizes, j) ==
    IF j = 0 THEN 0 ELSE field_sizes[j] + SizesBefore(field_sizes, j - 1)

\* C8: for N fields and a (B, N) input the output has shape (B, N * N, E),
\* is named (B, N, E), and holds at batch b, position i * N + j the row of
\* table i selected by inputs[b, j] + offsets[j].
C8_FieldAwareEmbeddingLayout ==
    (pc = "done" /\ call.op = "forward" /\ self.class = "MultiIndicesFieldAwareEmbedding")
        => LET N == Len(call.field_sizes)
               B == Len(call.inputs)
               E == self.length
           IN  /\ ret.shape = <<B, N * N, E>>
               /\ ret.names = <<"B", "N", "E">>
               /\ \A b \in 1..B : \A i, j \in 0..(N - 1) :
                     ret.outputs[b][i * N + j + 1]
                       = [e \in 1..E |->
                            <<i, call.inputs[b][j + 1] + SizesBefore(call.field_sizes, j), e>>]
C8_Witness ==
    /\ pc = "done" /\ call.op = "forward"
    /\ self.class = "MultiIndicesFieldAwareEmbedding"
    /\ Len(call.field_sizes) = MaxFields
    /\ Len(call.inputs) = MaxBatch
    /\ self.length = MaxEmbed
    /\ \A j \in 1..MaxFields : call.field_sizes[j] = MaxFieldSize
    /\ \A j \in 1..MaxFields : call.inputs[1][j] = MaxFieldSize - 1
    /\ ret.outputs[1][MaxFields * MaxFields][1]
         = <<MaxFields - 1, MaxFields * MaxFieldSize - 1, 1>>

\* C9: len() of ValueInputs(num_fields), its length attribute, is num_fields.
C9_ValueInputsLengthIsNumFields ==
    (pc = "done" /\ call.op = "__len__" /\ self.class = "ValueInputs")
        => ret.value = self.num_fields /\ self.length = self.num_fields


(***************************************************************************)
(* Properties of MixtureOfExpertsLayer.forward.                            *)
(***************************************************************************)
MoEDone == pc = "done" /\ call.op = "forward" /\ self.class = "MixtureOfExpertsLayer"

=============================================================================
